---------------------------- MODULE Spec2Model ----------------------------
(***************************************************************************)
(* A model of the Scaler GSC bot:                                          *)
(*   - app.py    : the Streamlit chat application (password gate, chat     *)
(*                 script, the cached tool fetch_gsc_data);                *)
(*   - server.py : the MCP tool get_search_analytics.                      *)
(*                                                                         *)
(* Conventions.                                                            *)
(*   Text is a sequence of tokens.  A token is a TLA+ string standing for  *)
(*   one character ("a", ",", "|") or for a literal of the source that     *)
(*   holds no delimiter ("clicks", "https://www.scaler.com").              *)
(*   A Python value that may be None, an int or a str is a record          *)
(*   [tag, v, s]: tag "none" | "int" | "str", v the int, s the text.       *)
(*   A calendar date is its proleptic ordinal (date.toordinal()); the      *)
(*   ISO text of a date is the str value [tag "iso"] carrying the ordinal  *)
(*   it denotes, any other text is tag "str".                              *)
(***************************************************************************)
EXTENDS Integers, Sequences, FiniteSets, TLC

\* ------------------------------------------------------------------------
\* Bounds of the model
\* ------------------------------------------------------------------------
\* Longest text input (filters, textual days_ago), in tokens.
MaxLen == 2
\* Most rows in a backend response.
MaxRows == 2
\* Largest |days_ago| enumerated besides the out-of-range one.
MaxDays == 2
\* The ordinal of the first "today" of a behaviour.
Day0 == 739000
\* How many midnights may pass.
MaxDayShift == 1
\* How many half-TTL clock steps may pass.
MaxTicks == 2
\* Most chat messages kept in the history: a user message is taken up only
\* while it and its two answers still fit.
MaxMessages == 3
\* Most tool invocations the model loop makes within one send_message.
MaxToolCalls == 1

\* ------------------------------------------------------------------------
\* Program constants
\* ------------------------------------------------------------------------
\* @st.cache_data(ttl=3600)
TTL == 3600
\* days_count = int(days_ago) if days_ago else 7
DefaultDays == 7
\* limit=10 / limit: int = 10
DefaultLimit == 10

\* ------------------------------------------------------------------------
\* Python values
\* ------------------------------------------------------------------------
RECURSIVE SeqsUpTo(_, _)
SeqsUpTo(S, n) ==
  IF n = 0 THEN {<<>>}
  ELSE LET shorter == SeqsUpTo(S, n - 1)
       IN shorter \cup {Append(s, c) : s \in shorter, c \in S}

PyNone == [tag |-> "none", v |-> 0, s |-> <<>>]
PyInt(n) == [tag |-> "int", v |-> n, s |-> <<>>]
PyStr(t) == [tag |-> "str", v |-> 0, s |-> t]
\* The text date.isoformat() gives for the date of ordinal d.
IsoText(d) == [tag |-> "iso", v |-> d, s |-> <<"Y-M-D">>]

\* bool(x) for None, int and str values.
Truthy(x) ==
  CASE x.tag = "none" -> FALSE
    [] x.tag = "int" -> x.v # 0
    [] OTHER -> x.s # <<>>

Digits == {"0", "1", "2", "3", "4", "5", "6", "7", "8", "9"}
DigitTokens == <<"0", "1", "2", "3", "4", "5", "6", "7", "8", "9">>
DigitVal(c) == (CHOOSE i \in 1..10 : DigitTokens[i] = c) - 1

\* int(x): whether it returns (else ValueError), and its value.
IntOk(x) ==
  CASE x.tag = "int" -> TRUE
    [] x.tag = "str" -> x.s # <<>> /\ \A i \in 1..Len(x.s) : x.s[i] \in Digits
    [] OTHER -> FALSE

RECURSIVE ParseDigits(_)
ParseDigits(t) ==
  IF t = <<>> THEN 0
  ELSE 10 * ParseDigits(SubSeq(t, 1, Len(t) - 1)) + DigitVal(t[Len(t)])

IntOf(x) == IF x.tag = "int" THEN x.v ELSE ParseDigits(x.s)

\* str(n) for a natural n.
RECURSIVE StrNat(_)
StrNat(n) ==
  IF n < 10 THEN <<DigitTokens[n + 1]>>
  ELSE Append(StrNat(n \div 10), DigitTokens[(n % 10) + 1])

\* str.upper() on the tokens of the model's alphabet.
UpperToken(c) ==
  CASE c = "i" -> "I"
    [] c = "n" -> "N"
    [] c = "a" -> "A"
    [] c = "b" -> "B"
    [] OTHER -> c

upper(t) == [i \in 1..Len(t) |-> UpperToken(t[i])]

\* str.replace(old, "") for a one-token old.
RECURSIVE remove(_, _)
remove(t, old) ==
  IF t = <<>> THEN <<>>
  ELSE IF t[1] = old THEN remove(Tail(t), old)
  ELSE <<t[1]>> \o remove(Tail(t), old)

\* How many delimiter-separated fields a line of text has.
RECURSIVE CountToken(_, _)
CountToken(t, d) ==
  IF t = <<>> THEN 0
  ELSE (IF t[1] = d THEN 1 ELSE 0) + CountToken(Tail(t), d)

Fields(line, d) == CountToken(line, d) + 1

\* ------------------------------------------------------------------------
\* Number formatting
\* ------------------------------------------------------------------------
\* A ctr is held in thousandths (24 is 0.024), a position in tenths (83 is 8.3).
RECURSIVE StripZeros(_)
StripZeros(t) ==
  IF Len(t) > 1 /\ t[Len(t)] = "0" THEN StripZeros(SubSeq(t, 1, Len(t) - 1)) ELSE t

Pad3(n) ==
  <<DigitTokens[(n \div 100) + 1], DigitTokens[((n \div 10) % 10) + 1],
    DigitTokens[(n % 10) + 1]>>

\* str(ctr) of a float in [0, 1].
StrCtr(n) == IF n >= 1000 THEN <<"1", ".", "0">> ELSE <<"0", ".">> \o StripZeros(Pad3(n))
\* str(position) and f"{pos:.1f}" of a float with one decimal.
StrTenths(p) == StrNat(p \div 10) \o <<".", DigitTokens[(p % 10) + 1]>>
\* f"{ctr:.1%}"
PctCtr(n) == StrTenths(n) \o <<"%">>

\* ------------------------------------------------------------------------
\* Results and outcomes
\* ------------------------------------------------------------------------
\* The text a tool returns: kind "error" (exc names the exception whose str is
\* in the message), "nodata", or "table" (preamble, header, data lines).
NoText == [kind |-> "none", exc |-> "", preamble |-> <<>>, header |-> <<>>, lines |-> <<>>]
ErrorText(exc) == [NoText EXCEPT !.kind = "error", !.exc = exc]
NoDataText(pre) == [NoText EXCEPT !.kind = "nodata", !.preamble = pre]
TableText(pre, header, lines) ==
  [kind |-> "table", exc |-> "", preamble |-> pre, header |-> header, lines |-> lines]

\* What one call did: returned `text` or raised `exc`, and the requests it sent.
Returned(text, reqs) == [raised |-> FALSE, exc |-> "", text |-> text, requests |-> reqs]
Raised(exc, reqs) == [raised |-> TRUE, exc |-> exc, text |-> NoText, requests |-> reqs]
NoOutcome == [raised |-> FALSE, exc |-> "", text |-> NoText, requests |-> <<>>]

\* ------------------------------------------------------------------------
\* app.py: fetch_gsc_data (the function body, under the cache decorator)
\* ------------------------------------------------------------------------
\* 2. DATE LOGIC: [ok, exc, start, end]
AppDateLogicDaysFirst(a, today) ==
  IF Truthy(a.days_ago) \/ ~(Truthy(a.start_date) /\ Truthy(a.end_date))
  THEN IF Truthy(a.days_ago) /\ ~IntOk(a.days_ago)
       THEN [ok |-> FALSE, exc |-> "ValueError", start |-> PyNone, end |-> PyNone]
       ELSE LET days_count == IF Truthy(a.days_ago) THEN IntOf(a.days_ago) ELSE DefaultDays
            IN [ok |-> TRUE, exc |-> "", start |-> IsoText(today - days_count),
                end |-> IsoText(today)]
  ELSE [ok |-> TRUE, exc |-> "", start |-> a.start_date, end |-> a.end_date]

AppDateLogic(a, today) ==
  IF Truthy(a.start_date) /\ Truthy(a.end_date)
  THEN [ok |-> TRUE, exc |-> "", start |-> a.start_date, end |-> a.end_date]
  ELSE IF Truthy(a.days_ago) /\ ~IntOk(a.days_ago)
       THEN [ok |-> FALSE, exc |-> "ValueError", start |-> PyNone, end |-> PyNone]
       ELSE LET days_count == IF Truthy(a.days_ago) THEN IntOf(a.days_ago) ELSE DefaultDays
                date_end == today
                date_start == date_end - days_count
            IN IF date_start < 1
               THEN [ok |-> FALSE, exc |-> "OverflowError", start |-> PyNone, end |-> PyNone]
               ELSE [ok |-> TRUE, exc |-> "", start |-> IsoText(date_start),
                     end |-> IsoText(date_end)]

\* Add Filters: the list `filters`.
AppFilters(a) ==
  (IF Truthy(a.filter_country)
   THEN <<[dimension |-> "country", operator |-> "equals",
           expression |-> upper(a.filter_country.s)]>>
   ELSE <<>>)
  \o (IF Truthy(a.filter_page)
      THEN <<[dimension |-> "page", operator |-> "contains",
              expression |-> a.filter_page.s]>>
      ELSE <<>>)

\* 3. BUILD REQUEST: the dict sent as the query's body.
AppRequestAlwaysGroup(a, dates) ==
  [startDate |-> dates.start,
   endDate |-> dates.end,
   dimensions |-> <<a.dimension>>,
   rowLimit |-> a.limit,
   dimensionFilterGroups |-> <<[filters |-> AppFilters(a)]>>]

AppRequest(a, dates) ==
  LET filters == AppFilters(a)
  IN [startDate |-> dates.start,
      endDate |-> dates.end,
      dimensions |-> <<a.dimension>>,
      rowLimit |-> a.limit,
      dimensionFilterGroups |->
        IF filters # <<>> THEN <<[filters |-> filters]>> ELSE <<>>]

\* One line of the CSV.
AppLine(row) ==
  LET clean_key == remove(row.key, ",")
  IN clean_key \o <<",">> \o StrNat(row.clicks) \o <<",">> \o StrNat(row.impressions)
       \o <<",">> \o StrCtr(row.ctr) \o <<",">> \o StrTenths(row.position)

AppHeader(dimension) ==
  <<dimension, ",", "clicks", ",", "impressions", ",", "ctr", ",", "position">>

\* 5. MINIFY OUTPUT
AppFormat(dimension, rows) ==
  IF \E i \in 1..Len(rows) : ~rows[i].complete
  THEN ErrorText("KeyError")
  ELSE TableText(<<>>, AppHeader(dimension), [i \in 1..Len(rows) |-> AppLine(rows[i])])

\* The whole body: try ... except Exception as e: return "Error fetching ...".
fetch_gsc_data_body(a, e, today) ==
  IF ~e.creds THEN Returned(ErrorText("CredentialsError"), <<>>)
  ELSE IF ~e.build THEN Returned(ErrorText("BuildError"), <<>>)
  ELSE LET dates == AppDateLogic(a, today)
       IN IF ~dates.ok THEN Returned(ErrorText(dates.exc), <<>>)
          ELSE LET request == AppRequest(a, dates)
               IN IF ~e.query THEN Returned(ErrorText("HttpError"), <<request>>)
                  ELSE IF e.rows = <<>> THEN Returned(NoDataText(<<>>), <<request>>)
                  ELSE Returned(AppFormat(a.dimension, e.rows), <<request>>)

\* ------------------------------------------------------------------------
\* server.py: get_search_analytics
\* ------------------------------------------------------------------------
SitePrefix == "https://www.scaler.com"

\* str(n) for an int n.
StrInt(n) == IF n < 0 THEN <<"-">> \o StrNat(0 - n) ELSE StrNat(n)

\* get_gsc_service(): TRUE when it returns the service, FALSE when it raises
\* RuntimeError("Authentication failed: ...").
get_gsc_service(e) == e.creds /\ e.build

\* 2. Dynamic Filtering: the list `filters`.
ServerFilters(a) ==
  (IF Truthy(a.filter_country)
   THEN <<[dimension |-> "country", operator |-> "equals",
           expression |-> upper(a.filter_country.s)]>>
   ELSE <<>>)
  \o (IF Truthy(a.filter_page_contains)
      THEN <<[dimension |-> "page", operator |-> "contains",
              expression |-> a.filter_page_contains.s]>>
      ELSE <<>>)

\* 1. Base Request, with the filter group appended.
ServerRequest(a, today) ==
  LET end_date == today
      start_date == end_date - a.days_ago.v
      filters == ServerFilters(a)
  IN [startDate |-> IsoText(start_date),
      endDate |-> IsoText(end_date),
      dimensions |-> <<a.dimension>>,
      rowLimit |-> a.limit,
      dimensionFilterGroups |->
        IF filters # <<>> THEN <<[filters |-> filters]>> ELSE <<>>]

\* The key cell of a row: the site root is cut from a page's URL.
ServerKey(dimension, key) ==
  IF dimension = "page"
  THEN (IF remove(key, SitePrefix) = <<>> THEN <<"/">> ELSE remove(key, SitePrefix))
  ELSE key

\* One line of the Markdown table.
ServerLine(dimension, row) ==
  <<"|", " ">> \o ServerKey(dimension, row.key) \o <<" ", "|", " ">>
    \o StrNat(row.clicks) \o <<" ", "|", " ">>
    \o StrNat(row.impressions) \o <<" ", "|", " ">>
    \o PctCtr(row.ctr) \o <<" ", "|", " ">>
    \o StrTenths(row.position) \o <<" ", "|">>

ServerHeader ==
  <<"|", " ", "Key", " ", "|", " ", "Clicks", " ", "|", " ", "Impressions", " ", "|",
    " ", "CTR", " ", "|", " ", "Position", " ", "|">>

\* The lines above the table.
ServerPreamble(a) ==
  <<(<<"### Top ">> \o StrInt(a.limit) \o <<" ", a.dimension, "s (Last ">>
       \o StrInt(a.days_ago.v) \o <<" days)">>)>>
  \o (IF Truthy(a.filter_country)
      THEN <<(<<"- **Country:** ">> \o a.filter_country.s)>> ELSE <<>>)
  \o (IF Truthy(a.filter_page_contains)
      THEN <<(<<"- **URL Pattern:** '">> \o a.filter_page_contains.s \o <<"'">>)>>
      ELSE <<>>)

\* 3. Formatted Output (Markdown Table)
ServerFormat(a, rows) ==
  IF \E i \in 1..Len(rows) : ~rows[i].complete
  THEN ErrorText("KeyError")
  ELSE TableText(ServerPreamble(a), ServerHeader,
                 [i \in 1..Len(rows) |-> ServerLine(a.dimension, rows[i])])

\* The whole tool: the service, the dates and the request are made outside
\* the try block, the query and the formatting inside it.
get_search_analytics(a, e, today) ==
  IF ~get_gsc_service(e) THEN Raised("RuntimeError", <<>>)
  ELSE IF a.days_ago.tag # "int" THEN Raised("TypeError", <<>>)
  ELSE IF today - a.days_ago.v < 1 THEN Raised("OverflowError", <<>>)
  ELSE LET request == ServerRequest(a, today)
       IN IF ~e.query THEN Returned(ErrorText("HttpError"), <<request>>)
          ELSE IF e.rows = <<>>
               THEN Returned(NoDataText(<<(<<"No data found for ", a.dimension,
                                             " in the last ">> \o StrInt(a.days_ago.v)
                                             \o <<" days.">>)>>), <<request>>)
          ELSE Returned(ServerFormat(a, e.rows), <<request>>)

\* ------------------------------------------------------------------------
\* Inputs of the tools
\* ------------------------------------------------------------------------
DefaultAppArgs ==
  [days_ago |-> PyNone, start_date |-> PyNone, end_date |-> PyNone,
   dimension |-> "query", limit |-> DefaultLimit,
   filter_country |-> PyNone, filter_page |-> PyNone]

DefaultServerArgs ==
  [days_ago |-> PyInt(DefaultDays), dimension |-> "query", limit |-> DefaultLimit,
   filter_country |-> PyNone, filter_page_contains |-> PyNone]

\* A days_ago no date arithmetic can take: today - HugeDays is before date.min.
HugeDays == 2 * (Day0 + MaxDayShift)

IntDays == (0 - MaxDays)..MaxDays \cup {DefaultDays, HugeDays}
DaysValues ==
  {PyNone} \cup {PyInt(n) : n \in IntDays}
    \cup {PyStr(t) : t \in SeqsUpTo({"3", "x"}, MaxLen)}
DateValues ==
  {PyNone, PyStr(<<>>), PyStr(<<"January">>)}
    \cup {IsoText(d) : d \in (Day0 - 1)..(Day0 + MaxDayShift + 1)}
FilterValues == {PyNone} \cup {PyStr(t) : t \in SeqsUpTo({"i", "N", "/"}, MaxLen)}
Dimensions == {"query", "page"}

PlainRow ==
  [key |-> <<"a">>, clicks |-> 12, impressions |-> 500, ctr |-> 24, position |-> 83,
   complete |-> TRUE]
KeyValues ==
  {<<>>, <<"a">>, <<",">>, <<"a", ",", "b">>, <<",", ",">>, <<"|">>, <<"a", "|", "b">>,
   <<"a", ",", "|">>, <<SitePrefix>>, <<SitePrefix, "/", "a">>, <<SitePrefix, "|">>}
RowValues == {[PlainRow EXCEPT !.key = k] : k \in KeyValues}
RowSeqs == SeqsUpTo(RowValues, MaxRows)

\* What the collaborators do during one call: whether the credentials load,
\* the service is built and the query answers, and the rows of the answer.
EnvOK(rows) == [creds |-> TRUE, build |-> TRUE, query |-> TRUE, rows |-> rows]
FailEnvs ==
  {[EnvOK(<<PlainRow>>) EXCEPT !.creds = FALSE],
   [EnvOK(<<PlainRow>>) EXCEPT !.build = FALSE],
   [EnvOK(<<PlainRow>>) EXCEPT !.query = FALSE],
   EnvOK(<<[PlainRow EXCEPT !.complete = FALSE]>>)}
SimpleEnvs == FailEnvs \cup {EnvOK(<<>>), EnvOK(<<PlainRow>>)}

AppInputs ==
  {[fn |-> "app", e |-> e,
    a |-> [DefaultAppArgs EXCEPT !.days_ago = d, !.start_date = s, !.end_date = t]] :
     d \in DaysValues, s \in DateValues, t \in DateValues, e \in SimpleEnvs}
  \cup
  {[fn |-> "app", e |-> EnvOK(<<PlainRow>>),
    a |-> [DefaultAppArgs EXCEPT !.filter_country = c, !.filter_page = p,
                                 !.dimension = dim]] :
     c \in FilterValues, p \in FilterValues, dim \in Dimensions}
  \cup
  {[fn |-> "app", e |-> EnvOK(rows), a |-> [DefaultAppArgs EXCEPT !.dimension = dim]] :
     rows \in RowSeqs, dim \in Dimensions}

ServerInputs ==
  {[fn |-> "server", e |-> e, a |-> [DefaultServerArgs EXCEPT !.days_ago = PyInt(n)]] :
     n \in IntDays, e \in SimpleEnvs}
  \cup
  {[fn |-> "server", e |-> EnvOK(<<PlainRow>>),
    a |-> [DefaultServerArgs EXCEPT !.filter_country = c, !.filter_page_contains = p,
                                    !.dimension = dim]] :
     c \in FilterValues, p \in FilterValues, dim \in Dimensions}
  \cup
  {[fn |-> "server", e |-> EnvOK(rows),
    a |-> [DefaultServerArgs EXCEPT !.dimension = dim]] :
     rows \in RowSeqs, dim \in Dimensions}

\* ------------------------------------------------------------------------
\* State
\* ------------------------------------------------------------------------
VARIABLES
  today,             \* datetime.date.today(), as an ordinal
  now,               \* the clock, in seconds
  password_correct,  \* st.session_state.password_correct: "absent", "True", "False"
  password_input,    \* st.session_state["password_input"]: "absent" or the text
  has_messages,      \* "messages" in st.session_state
  messages,          \* st.session_state.messages
  prompt_trigger,    \* st.session_state.prompt_trigger: "absent" or the prompt
  secrets,           \* .streamlit/secrets.toml: "full" or "missing"
  configured,        \* genai.configure(...) has been called
  widgets,           \* what the page shows: "none", "password", "error", "chat"
  pc,                \* where the script run is: "idle" between runs
  clicked,           \* the sidebar button this run answers: "none" or its name
  typed,             \* what st.chat_input returns in this run: "" for None
  user_input,        \* the script's user_input: "" for None
  sendCalls,         \* tool invocations of the send_message under way
  turnCalls,         \* tool invocations of the script run under way
  cache,             \* st.cache_data's store for fetch_gsc_data, by arguments
  hist,              \* by arguments, the last run of the function body
  lastCall,          \* the last tool invocation of the send_message under way
  pin,               \* the direct call under way: [fn, a, e]
  pout,              \* its outcome
  ppc                \* "ready" before the direct call, "done" after it, else "off"

svars ==
  <<now, password_correct, password_input, has_messages, messages, prompt_trigger,
    secrets, configured, widgets, pc, clicked, typed, user_input, sendCalls, turnCalls,
    cache, hist, lastCall>>
pvars == <<pin, pout, ppc>>
vars == <<today, svars, pvars>>

\* ------------------------------------------------------------------------
\* app.py: the cache decorator, @st.cache_data(ttl=3600)
\* ------------------------------------------------------------------------
\* The arguments and the collaborators' behaviour of the model loop's calls.
ToolArgs ==
  {[DefaultAppArgs EXCEPT !.days_ago = PyInt(DefaultDays),
                          !.filter_country = PyStr(<<"i", "n">>)],
   [DefaultAppArgs EXCEPT !.days_ago = PyStr(<<"x">>)]}
ToolEnvs ==
  {EnvOK(<<PlainRow>>), EnvOK(<<>>),
   [EnvOK(<<PlainRow>>) EXCEPT !.creds = FALSE],
   [EnvOK(<<PlainRow>>) EXCEPT !.query = FALSE]}

NoEntry == [present |-> FALSE, value |-> NoText, stored |-> 0]
NoRun == [ran |-> FALSE, at |-> 0, text |-> NoText, queried |-> FALSE]
NoCall ==
  [made |-> FALSE, a |-> DefaultAppArgs, e |-> EnvOK(<<>>), hit |-> FALSE,
   text |-> NoText, queried |-> FALSE, age |-> 0 - 1]

\* An entry answers a call until its time to live has passed.
CacheFreshInclusive(entry, t) == entry.present /\ t - entry.stored <= TTL

CacheFresh(entry, t) == entry.present /\ t - entry.stored < TTL

\* What the decorator keeps of a run of the body: any returned value.
CacheStoreNoErrors(c, a, text, t) ==
  IF text.kind = "error" THEN [c EXCEPT ![a] = NoEntry]
  ELSE [c EXCEPT ![a] = [present |-> TRUE, value |-> text, stored |-> t]]

CacheStore(c, a, text, t) ==
  [c EXCEPT ![a] = [present |-> TRUE, value |-> text, stored |-> t]]

\* One invocation of the decorated fetch_gsc_data with arguments a, while the
\* collaborators behave as e.
fetch_gsc_data(a, e) ==
  LET before == hist[a]
      age == IF before.ran THEN now - before.at ELSE 0 - 1
  IN IF CacheFresh(cache[a], now)
     THEN /\ lastCall' = [made |-> TRUE, a |-> a, e |-> e, hit |-> TRUE,
                          text |-> cache[a].value, queried |-> FALSE, age |-> age]
          /\ UNCHANGED <<cache, hist>>
     ELSE LET out == fetch_gsc_data_body(a, e, today)
          IN /\ cache' = CacheStore(cache, a, out.text, now)
             /\ hist' = [hist EXCEPT ![a] = [ran |-> TRUE, at |-> now, text |-> out.text,
                                             queried |-> out.requests # <<>>]]
             /\ lastCall' = [made |-> TRUE, a |-> a, e |-> e, hit |-> FALSE,
                             text |-> out.text, queried |-> out.requests # <<>>,
                             age |-> age]

\* ------------------------------------------------------------------------
\* app.py: the Streamlit session
\* ------------------------------------------------------------------------
APP_PASSWORD == "scaler-secret"
PasswordInputs == {APP_PASSWORD, "guess"}

Greeting == [role |-> "assistant", content |-> "Hello!"]
IndiaPrompt == "How is our organic traffic in India over the last 7 days?"
TopPrompt == "List the top 10 queries by clicks for the last 7 days globally."
Buttons == {"india", "top", "clear"}
\* The script past the gatekeeper.
PostGate == {"config", "ui", "input", "send1", "send2"}

\* Time passes in steps of half the time to live.
Tick == TTL \div 2

SessionStart ==
  /\ now = 0
  /\ password_correct = "absent"
  /\ password_input = "absent"
  /\ has_messages = FALSE
  /\ messages = <<>>
  /\ prompt_trigger = "absent"
  /\ configured = FALSE
  /\ widgets = "none"
  /\ clicked = "none"
  /\ typed = ""
  /\ user_input = ""
  /\ sendCalls = 0
  /\ turnCalls = 0
  /\ cache = [a \in ToolArgs |-> NoEntry]
  /\ hist = [a \in ToolArgs |-> NoRun]
  /\ lastCall = NoCall

Init ==
  /\ today = Day0
  /\ secrets \in {"full", "missing"}
  /\ pc = "gate"
  /\ SessionStart
  /\ pin = [fn |-> "app", a |-> DefaultAppArgs, e |-> EnvOK(<<>>)]
  /\ pout = NoOutcome
  /\ ppc = "off"

\* check_password(): initialises the flag and returns it.
check_password_lenient == password_correct # "False"

check_password == password_correct = "True"

\* if not check_password(): st.stop()
Gate ==
  /\ pc = "gate"
  /\ password_correct' = IF password_correct = "absent" THEN "False" ELSE password_correct
  /\ IF check_password
     THEN /\ pc' = "config"
          /\ UNCHANGED widgets
     ELSE /\ pc' = "idle"
          /\ widgets' = "password"
  /\ UNCHANGED <<today, now, password_input, has_messages, messages, prompt_trigger,
                 secrets, configured, clicked, typed, user_input, sendCalls, turnCalls,
                 cache, hist, lastCall, pvars>>

\* password_entered(): the callback of the password box, then the rerun.
password_entered(p) ==
  /\ pc = "idle"
  /\ widgets = "password"
  /\ IF p = APP_PASSWORD
     THEN /\ password_correct' = "True"
          /\ password_input' = "absent"
     ELSE /\ password_correct' = "False"
          /\ password_input' = p
  /\ pc' = "gate"
  /\ clicked' = "none"
  /\ typed' = ""
  /\ UNCHANGED <<today, now, has_messages, messages, prompt_trigger, secrets, configured,
                 widgets, user_input, sendCalls, turnCalls, cache, hist, lastCall, pvars>>

EnterPassword == \E p \in PasswordInputs : password_entered(p)

\* 2. AUTHENTICATION (Secrets)
Config ==
  /\ pc = "config"
  /\ IF secrets = "full"
     THEN /\ configured' = TRUE
          /\ pc' = "ui"
          /\ UNCHANGED widgets
     ELSE /\ pc' = "idle"
          /\ widgets' = "error"
          /\ UNCHANGED configured
  /\ UNCHANGED <<today, now, password_correct, password_input, has_messages, messages,
                 prompt_trigger, secrets, clicked, typed, user_input, sendCalls,
                 turnCalls, cache, hist, lastCall, pvars>>

\* The model, the chat history's first message and the sidebar.
Ui ==
  /\ pc = "ui"
  /\ has_messages' = TRUE
  /\ LET shown == IF has_messages THEN messages ELSE <<Greeting>>
     IN IF clicked = "clear"
        THEN /\ messages' = <<>>
             /\ pc' = "gate"
             /\ clicked' = "none"
             /\ UNCHANGED prompt_trigger
        ELSE /\ messages' = shown
             /\ pc' = "input"
             /\ prompt_trigger' =
                  CASE clicked = "india" -> IndiaPrompt
                    [] clicked = "top" -> TopPrompt
                    [] OTHER -> prompt_trigger
             /\ UNCHANGED clicked
  /\ UNCHANGED <<today, now, password_correct, password_input, secrets, configured,
                 widgets, typed, user_input, sendCalls, turnCalls, cache, hist,
                 lastCall, pvars>>

\* 2.-4. The chat input, the sidebar's trigger, the user's message.  The
\* run's widget values and locals are dropped where the run ends.
Input ==
  /\ pc = "input"
  /\ widgets' = "chat"
  /\ user_input' = IF prompt_trigger # "absent" THEN prompt_trigger ELSE typed
  /\ prompt_trigger' = "absent"
  /\ IF user_input' # ""
     THEN /\ messages' = Append(messages, [role |-> "user", content |-> user_input'])
          /\ pc' = "send1"
          /\ sendCalls' = 0
          /\ turnCalls' = 0
     ELSE /\ pc' = "idle"
          /\ UNCHANGED <<messages, sendCalls, turnCalls>>
  /\ clicked' = "none"
  /\ typed' = ""
  /\ UNCHANGED <<today, now, password_correct, password_input, has_messages, secrets,
                 configured, cache, hist, lastCall, pvars>>

\* chat.send_message(user_input) with automatic function calling: the model
\* loop invokes the tool.
ToolCall ==
  /\ pc \in {"send1", "send2"}
  /\ sendCalls < MaxToolCalls
  /\ \E a \in ToolArgs, e \in ToolEnvs : fetch_gsc_data(a, e)
  /\ sendCalls' = sendCalls + 1
  /\ turnCalls' = turnCalls + 1
  /\ UNCHANGED <<today, now, password_correct, password_input, has_messages, messages,
                 prompt_trigger, secrets, configured, widgets, pc, clicked, typed,
                 user_input, pvars>>

\* The first send_message ends: its answer is shown and kept, or its
\* exception is shown by st.error; the script goes on either way.
Send1Done ==
  /\ pc = "send1"
  /\ \/ messages' = Append(messages, [role |-> "assistant", content |-> "response.text"])
     \/ UNCHANGED messages
  /\ pc' = "send2"
  /\ sendCalls' = 0
  /\ lastCall' = NoCall
  /\ UNCHANGED <<today, now, password_correct, password_input, has_messages,
                 prompt_trigger, secrets, configured, widgets, clicked, typed,
                 user_input, turnCalls, cache, hist, pvars>>

\* The second send_message ends: its answer is shown and kept, or its
\* exception ends the script run.
Send2Done ==
  /\ pc = "send2"
  /\ \/ messages' = Append(messages, [role |-> "assistant", content |-> "response.text"])
     \/ UNCHANGED messages
  /\ pc' = "idle"
  /\ sendCalls' = 0
  /\ turnCalls' = 0
  /\ user_input' = ""
  /\ lastCall' = NoCall
  /\ UNCHANGED <<today, now, password_correct, password_input, has_messages,
                 prompt_trigger, secrets, configured, widgets, clicked, typed,
                 cache, hist, pvars>>

\* The user sends a chat message: the script reruns.
ChatInput ==
  /\ pc = "idle"
  /\ widgets = "chat"
  /\ Len(messages) + 3 <= MaxMessages
  /\ typed' = "typed question"
  /\ clicked' = "none"
  /\ pc' = "gate"
  /\ UNCHANGED <<today, now, password_correct, password_input, has_messages, messages,
                 prompt_trigger, secrets, configured, widgets, user_input, sendCalls,
                 turnCalls, cache, hist, lastCall, pvars>>

\* The user clicks a sidebar button: the script reruns.
ClickButton ==
  /\ pc = "idle"
  /\ widgets = "chat"
  /\ \E b \in Buttons :
       /\ b # "clear" => Len(messages) + 3 <= MaxMessages
       /\ clicked' = b
  /\ typed' = ""
  /\ pc' = "gate"
  /\ UNCHANGED <<today, now, password_correct, password_input, has_messages, messages,
                 prompt_trigger, secrets, configured, widgets, user_input, sendCalls,
                 turnCalls, cache, hist, lastCall, pvars>>

\* Time passes between two script runs (a run is short against the time to
\* live, and the clock of a behaviour spans less than a day).
ClockTick ==
  /\ pc = "idle"
  /\ now < MaxTicks * Tick
  /\ now' = now + Tick
  /\ UNCHANGED <<today, password_correct, password_input, has_messages, messages,
                 prompt_trigger, secrets, configured, widgets, pc, clicked, typed,
                 user_input, sendCalls, turnCalls, cache, hist, lastCall, pvars>>

Next ==
  \/ Gate
  \/ EnterPassword
  \/ Config
  \/ Ui
  \/ Input
  \/ ToolCall
  \/ Send1Done
  \/ Send2Done
  \/ ChatInput
  \/ ClickButton
  \/ ClockTick

Spec == Init /\ [][Next]_vars

\* ------------------------------------------------------------------------
\* Claims about the session (checked under Spec)
\* ------------------------------------------------------------------------
\* A step that invokes the tool.
ToolStep == turnCalls' = turnCalls + 1
\* The last run of the body for the arguments of the call being made is
\* younger than the time to live / is at least that old.
WithinTTL(a) == hist[a].ran /\ now - hist[a].at < TTL
Expired(a) == hist[a].ran /\ now - hist[a].at >= TTL
\* The body gets as far as the backend query.
ReachesQuery(a, e) == e.creds /\ e.build /\ AppDateLogic(a, today).ok

C3_SentinelsCached ==
  [][ToolStep =>
       LET a == lastCall'.a
       IN /\ ~lastCall'.hit =>
               (/\ cache'[a].present
                /\ cache'[a].value = lastCall'.text
                /\ cache'[a].stored = now)
          /\ (WithinTTL(a) /\ hist[a].text.kind \in {"error", "nodata"}) =>
               (lastCall'.text = hist[a].text /\ ~lastCall'.queried)]_vars

\* A stored backend error answered a later call that would have succeeded.
C3_Witness ==
  /\ lastCall.made
  /\ lastCall.hit
  /\ lastCall.age > 0
  /\ lastCall.text = ErrorText("HttpError")
  /\ lastCall.e = EnvOK(<<PlainRow>>)
  /\ ~lastCall.queried

\* C9: handling one user message invokes fetch_gsc_data at most once.
C9_OneInvocationPerMessage == turnCalls <= 1

\* C10: a script run whose password_correct is not true stops at the
\* gatekeeper; nothing is configured from the secrets, no tool is invoked, no
\* backend is queried and the chat history does not change unless
\* password_correct is true.  It becomes true only by password_entered with the
\* text of APP_PASSWORD, any other text sets it to false, and once true it
\* stays true.
C10_PasswordGate ==
  [][/\ pc' \in PostGate => password_correct' = "True"
     /\ (\/ configured' # configured
         \/ messages' # messages
         \/ has_messages' # has_messages
         \/ cache' # cache
         \/ hist' # hist
         \/ ToolStep) => (password_correct = "True" /\ pc \in PostGate)
     /\ (password_correct # "True" /\ password_correct' = "True") =>
          password_entered(APP_PASSWORD)
     /\ \A p \in PasswordInputs \ {APP_PASSWORD} :
          password_entered(p) => password_correct' = "False"
     /\ password_correct = "True" => password_correct' = "True"]_vars

\* A wrong password was entered and the run stopped at the gatekeeper.
C10_Witness ==
  /\ pc = "idle"
  /\ widgets = "password"
  /\ password_input = "guess"
  /\ password_correct = "False"
  /\ ~configured
  /\ ~has_messages

\* ------------------------------------------------------------------------
\* Direct calls of the two tools, one per behaviour
\* ------------------------------------------------------------------------
PipeInit ==
  /\ today \in Day0..(Day0 + MaxDayShift)
  /\ pin \in AppInputs \cup ServerInputs
  /\ pout = NoOutcome
  /\ ppc = "ready"
  /\ secrets = "full"
  /\ pc = "idle"
  /\ SessionStart

CallFetch ==
  /\ ppc = "ready"
  /\ pin.fn = "app"
  /\ pout' = fetch_gsc_data_body(pin.a, pin.e, today)
  /\ ppc' = "done"
  /\ UNCHANGED <<today, pin, svars>>

CallServer ==
  /\ ppc = "ready"
  /\ pin.fn = "server"
  /\ pout' = get_search_analytics(pin.a, pin.e, today)
  /\ ppc' = "done"
  /\ UNCHANGED <<today, pin, svars>>

PipeNext == CallFetch \/ CallServer

PipeSpec == PipeInit /\ [][PipeNext]_vars

\* ------------------------------------------------------------------------
\* Claims about the direct calls (checked under PipeSpec)
\* ------------------------------------------------------------------------
Done == ppc = "done"
\* The call got as far as the date logic: the collaborators before it worked.
ServiceBuilt == pin.e.creds /\ pin.e.build
\* The absolute range of an app.py call is active.
AbsoluteActive ==
  pin.fn = "app" /\ Truthy(pin.a.start_date) /\ Truthy(pin.a.end_date)
PageArg == IF pin.fn = "app" THEN pin.a.filter_page ELSE pin.a.filter_page_contains

\* C2: the composite operation never raises past its own boundary: every call
\* of fetch_gsc_data and of get_search_analytics, whatever its arguments and
\* whichever collaborator fails, ends by returning a text.
C2_NeverRaises == Done => (~pout.raised /\ pout.text.kind # "none")

\* The part of C2 that app.py keeps: fetch_gsc_data alone never raises.
AppNeverRaises == (Done /\ pin.fn = "app") => (~pout.raised /\ pout.text.kind # "none")

\* C4: with no absolute range active, a call whose service was built sends the
\* range [today - n, today], n being days_ago when it is a positive number and
\* 7 when it is absent, zero, negative or not numeric; no such call fails.
C4_RelativeDays ==
  (Done /\ ServiceBuilt /\ ~AbsoluteActive) =>
    LET d == pin.a.days_ago
        n == IF IntOk(d) /\ IntOf(d) > 0 THEN IntOf(d) ELSE DefaultDays
    IN /\ ~pout.raised
       /\ Len(pout.requests) = 1
       /\ pout.requests[1].startDate = IsoText(today - n)
       /\ pout.requests[1].endDate = IsoText(today)

\* C5: every request sent carries two dates with startDate <= endDate <= today.
C5_RangeOrdered ==
  \A i \in 1..Len(pout.requests) :
    LET r == pout.requests[i]
    IN /\ r.startDate.tag = "iso"
       /\ r.endDate.tag = "iso"
       /\ r.startDate.v <= r.endDate.v
       /\ r.endDate.v <= today

\* The filters the arguments ask for: country (equals, uppercased) before page
\* (contains, as given); an empty text asks for nothing.
WantedFilters ==
  (IF pin.a.filter_country.tag = "str" /\ pin.a.filter_country.s # <<>>
   THEN <<[dimension |-> "country", operator |-> "equals",
           expression |-> upper(pin.a.filter_country.s)]>>
   ELSE <<>>)
  \o (IF PageArg.tag = "str" /\ PageArg.s # <<>>
      THEN <<[dimension |-> "page", operator |-> "contains", expression |-> PageArg.s]>>
      ELSE <<>>)

\* C6 as stated: the request has the filter-group field if and only if a filter
\* is supplied (with no filter the field is left out of the request).
C6_FieldOmittedWithoutFilters ==
  \A i \in 1..Len(pout.requests) :
    ("dimensionFilterGroups" \in DOMAIN pout.requests[i]) <=> (WantedFilters # <<>>)

\* C6, amended: every request has the field dimensionFilterGroups; it is the
\* empty list when no non-empty filter is supplied, and otherwise a list of
\* exactly one group holding all the supplied filters, country (equals, on the
\* uppercased input) before page (contains, on the raw input).  No group is
\* ever sent with no filters in it.
C6_FilterGroup ==
  \A i \in 1..Len(pout.requests) :
    LET r == pout.requests[i]
    IN /\ "dimensionFilterGroups" \in DOMAIN r
       /\ (WantedFilters = <<>>) <=> (r.dimensionFilterGroups = <<>>)
       /\ WantedFilters # <<>> => r.dimensionFilterGroups = <<[filters |-> WantedFilters]>>
       /\ \A g \in 1..Len(r.dimensionFilterGroups) :
            r.dimensionFilterGroups[g].filters # <<>>

\* A request went out with both filters, the country given in lower case.
C6_Witness ==
  /\ Done
  /\ Len(pout.requests) = 1
  /\ Len(WantedFilters) = 2
  /\ pin.a.filter_country.s # upper(pin.a.filter_country.s)
  /\ Len(pout.requests[1].dimensionFilterGroups) = 1

\* C7: when fetch_gsc_data gets start_date and end_date (both non-empty) and a
\* days_ago as well, the request carries exactly those two dates, and no other
\* days_ago would have changed the outcome.
C7_AbsoluteWins ==
  (Done /\ AbsoluteActive /\ pin.a.days_ago.tag # "none") =>
    /\ ServiceBuilt => Len(pout.requests) = 1
    /\ \A i \in 1..Len(pout.requests) :
         /\ pout.requests[i].startDate = pin.a.start_date
         /\ pout.requests[i].endDate = pin.a.end_date
    /\ \A d \in DaysValues :
         fetch_gsc_data_body([pin.a EXCEPT !.days_ago = d], pin.e, today).requests
           = pout.requests

\* A request went out for an absolute range while days_ago asked for another.
C7_Witness ==
  /\ Done
  /\ AbsoluteActive
  /\ pin.a.days_ago.tag = "int"
  /\ pin.a.days_ago.v > 0
  /\ pin.a.start_date.tag = "iso"
  /\ pin.a.start_date.v # today - pin.a.days_ago.v
  /\ Len(pout.requests) = 1

\* C8: every data line of a table has as many columns as its header, five,
\* whatever the keys of the rows hold.
Columns(line) ==
  IF pin.fn = "app" THEN Fields(line, ",") ELSE CountToken(line, "|") - 1

C8_ColumnCount ==
  (Done /\ pout.text.kind = "table") =>
    /\ Columns(pout.text.header) = 5
    /\ \A i \in 1..Len(pout.text.lines) : Columns(pout.text.lines[i]) = 5

\* The part of C8 that app.py keeps: the CSV lines have five fields.
AppColumnCount == (pin.fn = "app") => C8_ColumnCount

====
